---- MODULE Spec2Model ----
(***************************************************************************)
(* Model of the video analysis pipeline of Video_Analyzer:                 *)
(*   backend/controllers/videoController.js  (uploadVideo,                 *)
(*       processVideoFile: the two places that start a pipeline run)       *)
(*   backend/services/videoProcessorService.js (processVideo and the       *)
(*       helpers it calls)                                                 *)
(*   backend/services/ffmpegService.js (extractFrames progress callback)   *)
(*   backend/services/llmSummarizerService.js (generateDetailedSummary)    *)
(*                                                                         *)
(* JavaScript runs one continuation at a time, so one action is "the       *)
(* awaited operation of a run completes (or rejects) and the code runs on  *)
(* to the next await".  pc[r] names the operation run r is awaiting.       *)
(***************************************************************************)
EXTENDS Integers, Sequences, FiniteSets, TLC

\* ------------------------------------------------------------------ bounds
MaxRuns == 2          \* processVideo invocations (run slots) per behaviour
MaxFrames == 6        \* frames ffmpeg may write for one video
MaxCallbacks == 2     \* ffmpeg "frame=" progress lines seen per extraction

Runs == 1..MaxRuns
Jobs == {"A", "B"}
\* durations (seconds) the prober may report; 0 is what getVideoMetadata
\* returns when the container carries no duration (parseFloat(..) || 0)
Durations == {0, 40, 130}

\* ------------------------------------------------------------- job record
StatusFields == {"status", "processingProgress", "processingStage", "processingError"}
\* duration stands for duration+resolution, transcript for transcript+
\* fullTranscript, overall for overall+humanDescription+sensitivity: the code
\* always assigns the members of each group together.
DataFields == {"duration", "keyframes", "audioPath", "transcript", "scores",
               "timeline", "overall", "recommendedAction", "modelVersions"}
Fields == StatusFields \cup DataFields

\* a data value: which run computed it (0: none) and what it is
Val(r, v) == [by |-> r, v |-> v]
NoVal == Val(0, "none")

AbsentRecord == [f \in Fields |->
    CASE f = "status" -> "absent"
      [] f = "processingProgress" -> 0
      [] f \in {"processingStage", "processingError"} -> ""
      [] OTHER -> NoVal]

\* Video.create({... status: 'uploading', overall: 'neutral',
\*               recommendedAction: 'pending'})
NewRecord == [AbsentRecord EXCEPT !.status = "uploading",
                                  !.overall = Val(0, "neutral"),
                                  !.recommendedAction = Val(0, "pending")]

TerminalStatuses == {"completed", "failed"}

\* ----------------------------------------------------------------- events
\* a progress value as JavaScript has it: a number or NaN
Num(n) == [nan |-> FALSE, n |-> n]
NaN == [nan |-> TRUE, n |-> 0]

\* an event as one emit call sends it: to the room of the user ("user") or
\* to every connected socket ("all")
Ev(to, type, stg, progress, msg) ==
    [to |-> to, type |-> type, stage |-> stg, progress |-> progress, msg |-> msg]

\* if (userId) io.to(`user:${userId}`).emit(..); io.emit(..): both callers
\* of processVideo pass req.user._id
Rooms == <<"user", "all">>

VARIABLES
    env,       \* configuration and the uploaded files (fixed after Init)
    rec,       \* the persisted job record of each job (the Video collection)
    resp,      \* status code of the last HTTP response of the controller
    job,       \* job[r]: the video a run works on
    pc,        \* pc[r]: the operation run r is awaiting
    doc,       \* doc[r]: the run's in-memory document (`video`)
    dirty,     \* dirty[r]: the document's modified paths, written by save()
    loc,       \* loc[r]: the run's local variables
    events,    \* events[r]: what the run has pushed to the progress sink
    hist,      \* hist[r]: history of the run (stages entered, failure)
    disk,      \* disk[j]: the working directory of job j under processingDir
    calc       \* argument and result of the last call of the classifier

vars == <<env, rec, resp, job, pc, doc, dirty, loc, events, hist, disk, calc>>

NoLoc == [i |-> 0, total |-> 0, frameCount |-> 0, callbacks |-> 0, results |-> <<>>]
\* a working directory that was never made: no frames, no audio.wav
NoDir == [exists |-> FALSE, frames |-> 0, audio |-> FALSE]
\* no call of the classifier yet
NoCalc == [called |-> FALSE]
NoHist == [started |-> <<>>, asg |-> [f \in Fields |-> 0], failStage |-> 0,
           handlerWrote |-> {}, outcome |-> "none", error |-> ""]

\* the file of job j as the media tool sees it
File(j) == env.file[j]

\* metadata.duration < 30 ? 2 : (metadata.duration < 120 ? 1 : 0.5), as the
\* fraction num/den
Fps(duration) ==
    IF duration < 30 THEN [num |-> 2, den |-> 1]
    ELSE IF duration < 120 THEN [num |-> 1, den |-> 1]
    ELSE [num |-> 1, den |-> 2]

\* Math.ceil(metadata.duration * fps) for a whole number of seconds
TotalFrames(duration) ==
    LET f == Fps(duration)
    IN  (duration * f.num + f.den - 1) \div f.den

\* Math.round(x) of the rational x = n/d, d > 0: floor(x + 1/2)
RoundDiv(n, d) == (2 * n + d) \div (2 * d)

\* ------------------------------------------------------------ text analysis
\* Scores are kept in hundredths (0.35 is 35), times in half seconds (the
\* sampling rates are 2, 1 and 0.5 frames per second).
Sec(n) == 2 * n

Max2(a, b) == IF a >= b THEN a ELSE b
Min2(a, b) == IF a <= b THEN a ELSE b
SetMax(S) == IF S = {} THEN 0 ELSE CHOOSE x \in S : \A y \in S : y <= x

RECURSIVE SeqSum(_)
SeqSum(q) == IF q = <<>> THEN 0 ELSE q[1] + SeqSum(Tail(q))

\* the words a transcript text is made of here; no word contains a keyword
\* of a lexicon other than itself
Vocabulary == {"ok", "fuck", "damn", "hell", "kill", "nazi", "gun", "weed", "sex"}

\* the lexicons of textAnalysisService, restricted to the vocabulary
profanityList == {"fuck", "damn"}
mildProfanityList == {"hell", "damn"}
hateSpeechKeywords == {"kill", "nazi"}
violenceKeywords == {"kill", "gun"}
drugKeywords == {"weed"}
sexualKeywords == {"sex"}

\* a text: its lexicon words in order and the number of other words (the
\* start time of a segment is a whole number of seconds)
Text(words, others) == [words |-> words, others |-> others]
NoText == Text(<<>>, 0)

\* the keywords of a lexicon that text.toLowerCase().includes(keyword)
Included(text, lexicon) ==
    {k \in lexicon : \E i \in DOMAIN text.words : text.words[i] = k}

\* analyzeProfanity(text).score
AnalyzeProfanity(text) ==
    IF text = NoText THEN 0
    ELSE LET highCount == Cardinality({i \in DOMAIN text.words :
                              text.words[i] \in profanityList})
             mildCount == Cardinality({i \in DOMAIN text.words :
                              /\ text.words[i] \notin profanityList
                              /\ text.words[i] \in mildProfanityList})
             totalWords == Len(text.words) + text.others
         IN  IF 5 * (highCount * 3 + mildCount) >= totalWords
             THEN 100
             ELSE RoundDiv(500 * (highCount * 3 + mildCount), totalWords)

\* analyzeHateSpeech, analyzeViolence, analyzeDrugContent,
\* analyzeSexualContent: Math.min(matches * weight, 1.0)
KeywordScore(text, lexicon, weight) ==
    IF text = NoText THEN 0
    ELSE Min2(Cardinality(Included(text, lexicon)) * weight, 100)

AnalyzeHateSpeech(text) == KeywordScore(text, hateSpeechKeywords, 20)
AnalyzeViolence(text) == KeywordScore(text, violenceKeywords, 10)
AnalyzeDrugContent(text) == KeywordScore(text, drugKeywords, 15)
AnalyzeSexualContent(text) == KeywordScore(text, sexualKeywords, 20)

\* the order of the `categories` array of analyzeTranscriptSegments
TextCategories == <<"profanity", "hate_speech", "violence", "drug_use", "sexual_content">>

\* analyzeTranscriptSegments, one segment [time, text]: the category scores,
\* the flag, and the primary category (the first one with the highest
\* score; "null" when not flagged)
AnalyzeSegment(seg) ==
    LET sc == [profanity |-> AnalyzeProfanity(seg.text),
               hate_speech |-> AnalyzeHateSpeech(seg.text),
               violence |-> AnalyzeViolence(seg.text),
               drug_use |-> AnalyzeDrugContent(seg.text),
               sexual_content |-> AnalyzeSexualContent(seg.text)]
        flagged == \/ sc.profanity > 10
                   \/ sc.hate_speech > 10
                   \/ sc.violence > 30
                   \/ sc.drug_use > 20
                   \/ sc.sexual_content > 20
        maxScore == SetMax({sc[TextCategories[k]] : k \in DOMAIN TextCategories})
        first == CHOOSE k \in DOMAIN TextCategories :
                    /\ sc[TextCategories[k]] = maxScore
                    /\ \A m \in 1..(k - 1) : sc[TextCategories[m]] < maxScore
    IN  [time |-> seg.time, text |-> seg.text, flagged |-> flagged,
         category |-> IF flagged THEN TextCategories[first] ELSE "null",
         scores |-> sc]

AnalyzeTranscriptSegments(segments) ==
    [k \in DOMAIN segments |-> AnalyzeSegment(segments[k])]

\* aggregateTextScores: the maximum of each category over the segments
AggregateTextScores(analyzed) ==
    [c \in {TextCategories[k] : k \in DOMAIN TextCategories} |->
        SetMax({analyzed[k].scores[c] : k \in DOMAIN analyzed})]

\* a timeline event
Event(start, end, category, score) ==
    [start |-> start, end |-> end, category |-> category, score |-> score]

\* getTextTimeline: analyzedSegments.filter(seg => seg.flagged).map(..), one
\* event of three seconds per flagged segment
GetTextTimeline(analyzed) ==
    LET flagged == SelectSeq(analyzed, LAMBDA seg : seg.flagged)
    IN  [k \in DOMAIN flagged |->
            Event(Sec(flagged[k].time), Sec(flagged[k].time + 3), flagged[k].category,
                  SetMax({flagged[k].scores[c] : c \in DOMAIN flagged[k].scores}))]

\* ---------------------------------------------------------- vision scores
\* the order of the `categories` arrays of videoProcessorService
VisionCategories == <<"nudity", "violence", "weapons", "sexual_content", "drug_use">>
VisionCats == {VisionCategories[k] : k \in DOMAIN VisionCategories}

\* 1 / fps in half seconds
FrameStep(fps) == (2 * fps.den) \div fps.num

\* i / fps in half seconds
Timestamp(i, fps) == i * FrameStep(fps)

\* the same with the zero values kept among the values
AggregateVisionScoresCountingZeros(frameResults) ==
    [c \in VisionCats |->
        LET values == SelectSeq([k \in DOMAIN frameResults |-> frameResults[k][c]],
                                LAMBDA v : v >= 0)
            n == Len(values)
            total == Len(frameResults)
            maxScore == SetMax({values[k] : k \in DOMAIN values})
        IN  IF n = 0 THEN 0
            ELSE RoundDiv(6 * maxScore * n * total + 3 * SeqSum(values) * total
                              + 100 * n * n,
                          10 * n * total)]

\* aggregateVisionScoresEnhanced: per category, over the frames with a value
\* above 0, Math.round((max * 0.6 + avg * 0.3 + frequency * 0.1) * 100) / 100
AggregateVisionScoresEnhanced(frameResults) ==
    [c \in VisionCats |->
        LET values == SelectSeq([k \in DOMAIN frameResults |-> frameResults[k][c]],
                                LAMBDA v : v > 0)
            n == Len(values)
            total == Len(frameResults)
            maxScore == SetMax({values[k] : k \in DOMAIN values})
        IN  IF n = 0 THEN 0
            ELSE RoundDiv(6 * maxScore * n * total + 3 * SeqSum(values) * total
                              + 100 * n * n,
                          10 * n * total)]

\* calculateOverallConfidence(visionScores, textScores, frameCount)
CalculateOverallConfidence(visionScores, textScores, frameCount) ==
    LET visionValues == {c \in DOMAIN visionScores : visionScores[c] > 0}
        textValues == {c \in DOMAIN textScores : textScores[c] > 0}
        frameConfidence == Min2(frameCount, 30)
        detectionConfidence == (Cardinality(visionValues) + Cardinality(textValues)) * 5
        maxSignal == SetMax({visionScores[c] : c \in DOMAIN visionScores}
                            \cup {textScores[c] : c \in DOMAIN textScores})
        signalConfidence == IF maxSignal > 50 THEN 20
                            ELSE IF maxSignal > 20 THEN 10 ELSE 0
    IN  Min2(50 + frameConfidence + detectionConfidence + signalConfidence, 98)

\* video.scores = { nudity: Math.max(visionScores.nudity, text sexual * 0.5), .. }
CombineScores(visionScores, textScores, frameCount) ==
    [nudity |-> Max2(visionScores.nudity, textScores.sexual_content \div 2),
     violence |-> Max2(visionScores.violence, textScores.violence),
     profanity |-> textScores.profanity,
     hate_speech |-> textScores.hate_speech,
     sexual_content |-> Max2(visionScores.sexual_content, textScores.sexual_content),
     drug_use |-> Max2(visionScores.drug_use, textScores.drug_use),
     weapons |-> visionScores.weapons,
     overall_confidence |->
         CalculateOverallConfidence(visionScores, textScores, frameCount)]

\* ------------------------------------------------------------------ timeline
NoEvent == Event(0, 0, "null", 0)

\* buildVisionTimelineEnhanced: the n-th step of frameResults.forEach(frame =>
\* categories.forEach(category => ..)) and those after it; st holds
\* `timeline` and `currentEvent`
RECURSIVE ScanFrames(_, _, _, _)
ScanFrames(frameResults, fps, n, st) ==
    IF n > 5 * Len(frameResults) THEN st
    ELSE LET frame == frameResults[((n - 1) \div 5) + 1]
             category == VisionCategories[((n - 1) % 5) + 1]
             score == frame[category]
             timestamp == frame.timestamp
         IN  ScanFrames(frameResults, fps, n + 1,
                 IF score <= 25 THEN st
                 ELSE IF /\ st.currentEvent # NoEvent
                         /\ st.currentEvent.category = category
                         /\ timestamp - st.currentEvent.end < Sec(2)
                 THEN [st EXCEPT !.currentEvent.end = timestamp + FrameStep(fps),
                                 !.currentEvent.score = Max2(@, score)]
                 ELSE [timeline |-> IF st.currentEvent # NoEvent
                                    THEN Append(st.timeline, st.currentEvent)
                                    ELSE st.timeline,
                       currentEvent |-> Event(timestamp, timestamp + FrameStep(fps),
                                              category, score)])

BuildVisionTimelineEnhanced(frameResults, fps) ==
    LET st == ScanFrames(frameResults, fps, 1,
                         [timeline |-> <<>>, currentEvent |-> NoEvent])
    IN  IF st.currentEvent # NoEvent
        THEN Append(st.timeline, st.currentEvent)
        ELSE st.timeline

\* [..].sort((a, b) => a.start - b.start): a stable sort
\* q[i] goes to the place after the elements that start earlier and the
\* elements before it that start at the same time
SortByStart(q) ==
    LET place == [i \in DOMAIN q |->
                     Cardinality({m \in DOMAIN q :
                                     \/ q[m].start < q[i].start
                                     \/ q[m].start = q[i].start /\ m < i}) + 1]
    IN  [p \in DOMAIN q |-> q[CHOOSE i \in DOMAIN q : place[i] = p]]

TimelineLimit == 100

\* the same with the slice taken before the sort
MergeTimelineSliceBeforeSort(textTimeline, visionTimeline) ==
    LET joined == textTimeline \o visionTimeline
    IN  SortByStart(SubSeq(joined, 1, Min2(Len(joined), TimelineLimit)))

\* video.timeline = [...textTimeline, ...visionTimeline].sort(..).slice(0, 100)
MergeTimeline(textTimeline, visionTimeline) ==
    LET sorted == SortByStart(textTimeline \o visionTimeline)
    IN  SubSeq(sorted, 1, Min2(Len(sorted), TimelineLimit))

\* --------------------------------------------------------------- classifier
\* the same with the hard threshold of violence read as 0.8
DetermineLabelViolenceAbove80(scores) ==
    IF scores.nudity > 60 THEN "flagged"
    ELSE IF scores.violence > 80 THEN "flagged"
    ELSE IF scores.hate_speech > 50 THEN "flagged"
    ELSE IF scores.sexual_content > 60 THEN "flagged"
    ELSE IF scores.weapons > 70 THEN "flagged"
    ELSE IF \E cat \in {"nudity", "violence", "hate_speech", "sexual_content",
                        "weapons", "drug_use"} : scores[cat] > 30
    THEN "review"
    ELSE IF \E key \in DOMAIN scores : scores[key] > 10 THEN "neutral"
    ELSE IF scores.profanity > 20 THEN "neutral"
    ELSE "safe"

\* determineLabel(analysisData); Object.values(scores) ranges over every key
\* of the score vector, overall_confidence included
DetermineLabel(scores) ==
    IF scores.nudity > 60 THEN "flagged"
    ELSE IF scores.violence > 70 THEN "flagged"
    ELSE IF scores.hate_speech > 50 THEN "flagged"
    ELSE IF scores.sexual_content > 60 THEN "flagged"
    ELSE IF scores.weapons > 70 THEN "flagged"
    ELSE IF \E cat \in {"nudity", "violence", "hate_speech", "sexual_content",
                        "weapons", "drug_use"} : scores[cat] > 30
    THEN "review"
    ELSE IF \E key \in DOMAIN scores : scores[key] > 10 THEN "neutral"
    ELSE IF scores.profanity > 20 THEN "neutral"
    ELSE "safe"

DetermineActionNudityAbove55(scores, timelineLength) ==
    LET highFlags == Cardinality({key \in DOMAIN scores : scores[key] > 50})
        moderateFlags == Cardinality({key \in DOMAIN scores : scores[key] > 30})
    IN  IF scores.nudity > 55 THEN "remove"
        ELSE IF scores.violence > 80 THEN "remove"
        ELSE IF scores.hate_speech > 60 THEN "remove"
        ELSE IF scores.sexual_content > 75 THEN "remove"
        ELSE IF highFlags >= 1 THEN "manual_review"
        ELSE IF moderateFlags >= 2 THEN "manual_review"
        ELSE IF timelineLength > 10 THEN "manual_review"
        ELSE IF scores.nudity > 25 THEN "age_restrict"
        ELSE IF scores.violence > 35 THEN "age_restrict"
        ELSE IF scores.sexual_content > 30 THEN "age_restrict"
        ELSE IF scores.profanity > 40 THEN "age_restrict"
        ELSE IF scores.drug_use > 30 THEN "age_restrict"
        ELSE IF moderateFlags = 1 THEN "age_restrict"
        ELSE "publish"

\* determineAction(analysisData)
DetermineAction(scores, timelineLength) ==
    LET highFlags == Cardinality({key \in DOMAIN scores : scores[key] > 50})
        moderateFlags == Cardinality({key \in DOMAIN scores : scores[key] > 30})
    IN  IF scores.nudity > 75 THEN "remove"
        ELSE IF scores.violence > 80 THEN "remove"
        ELSE IF scores.hate_speech > 60 THEN "remove"
        ELSE IF scores.sexual_content > 75 THEN "remove"
        ELSE IF highFlags >= 1 THEN "manual_review"
        ELSE IF moderateFlags >= 2 THEN "manual_review"
        ELSE IF timelineLength > 10 THEN "manual_review"
        ELSE IF scores.nudity > 25 THEN "age_restrict"
        ELSE IF scores.violence > 35 THEN "age_restrict"
        ELSE IF scores.sexual_content > 30 THEN "age_restrict"
        ELSE IF scores.profanity > 40 THEN "age_restrict"
        ELSE IF scores.drug_use > 30 THEN "age_restrict"
        ELSE IF moderateFlags = 1 THEN "age_restrict"
        ELSE "publish"

\* --------------------------------------------------------------- emitters
\* emitProgress: `if (!io) return`, progress: Math.round(progress)
EmitProgress(stg, progress, msg) ==
    IF env.io
    THEN [k \in DOMAIN Rooms |-> Ev(Rooms[k], "progress", stg, progress, msg)]
    ELSE <<>>

\* what a completion event or a job record tells of the final state: label,
\* action, score vector and number of timeline events
\* (timeline: video.timeline?.length || 0)
FinalState(d) ==
    [overall |-> d.overall.v, recommendedAction |-> d.recommendedAction.v,
     scores |-> d.scores.v,
     timeline |-> IF d.timeline.by = 0 THEN 0 ELSE Len(d.timeline.v)]

\* emitComplete
EmitComplete(d) ==
    IF env.io
    THEN [k \in DOMAIN Rooms |-> Ev(Rooms[k], "complete", "", Num(100), FinalState(d))]
    ELSE <<>>

\* emitError
EmitError(msg) ==
    IF env.io
    THEN [k \in DOMAIN Rooms |-> Ev(Rooms[k], "error", "", Num(0), msg)]
    ELSE <<>>

\* ------------------------------------------------------------ persistence
\* what the Video model stores for path f of a document that holds v there:
\* the record's fields mirror the document, a write stores the value or
\* fails as a whole
Cast(f, v) == v

\* video.save(): writes the modified paths of the document to the record
Save(record, d, mods) ==
    [f \in Fields |-> IF f \in mods THEN Cast(f, d[f]) ELSE record[f]]

\* paths an assignment marks modified: a primitive only when its value
\* changes, an array or object always
Mods(d, ch) ==
    {f \in DOMAIN ch : f \in DataFields \/ ch[f][1] # d[f]}

CurStage(r) ==
    IF hist[r].started = <<>> THEN 0
    ELSE hist[r].started[Len(hist[r].started)]

\* Calls with the stage names of the transcription and text-analysis calls
\* exchanged
CallsStageNamesSwapped ==
    5  :> [in |-> 1, stage |-> "extracting", message |-> "Extracting video metadata..."] @@
    10 :> [in |-> 2, stage |-> "extracting", message |-> "Extracting keyframes for analysis..."] @@
    25 :> [in |-> 3, stage |-> "extracting", message |-> "Extracting audio track..."] @@
    30 :> [in |-> 4, stage |-> "analyzing_frames", message |-> "Analyzing video frames with AI..."] @@
    55 :> [in |-> 5, stage |-> "analyzing_text", message |-> "Transcribing audio content..."] @@
    65 :> [in |-> 6, stage |-> "transcribing", message |-> "Analyzing transcript for violations..."] @@
    75 :> [in |-> 7, stage |-> "analyzing_text", message |-> "Computing content safety scores..."] @@
    85 :> [in |-> 8, stage |-> "summarizing", message |-> "Generating AI content report..."]

\* the updateProgress calls of processVideo, by progress value: the stage
\* (1..9, as the comments of processVideo number them) the call opens, and
\* its stage name and message arguments
Calls ==
    5  :> [in |-> 1, stage |-> "extracting", message |-> "Extracting video metadata..."] @@
    10 :> [in |-> 2, stage |-> "extracting", message |-> "Extracting keyframes for analysis..."] @@
    25 :> [in |-> 3, stage |-> "extracting", message |-> "Extracting audio track..."] @@
    30 :> [in |-> 4, stage |-> "analyzing_frames", message |-> "Analyzing video frames with AI..."] @@
    55 :> [in |-> 5, stage |-> "transcribing", message |-> "Transcribing audio content..."] @@
    65 :> [in |-> 6, stage |-> "analyzing_text", message |-> "Analyzing transcript for violations..."] @@
    75 :> [in |-> 7, stage |-> "analyzing_text", message |-> "Computing content safety scores..."] @@
    85 :> [in |-> 8, stage |-> "summarizing", message |-> "Generating AI content report..."]

\* updateProgress(video, io, userId, stage, progress, message) up to its
\* await: status, progress and stage message assigned in memory
UpdateProgress(p) ==
    LET c == Calls[p]
    IN  [status |-> <<IF c.stage = "completed" THEN "completed" ELSE "processing", c.in>>,
         processingProgress |-> <<p, c.in>>,
         processingStage |-> <<IF c.message = "" THEN c.stage ELSE c.message, c.in>>]

\* the stage a call of updateProgress opens
Enter(p) == <<Calls[p].in>>

\* updateProgress after its save: emitProgress with the call's arguments
EmitUpdate(p) == EmitProgress(Calls[p].stage, Num(p), Calls[p].message)

\* One continuation of run r.  saved: the save the run awaited succeeded;
\* ch: the assignments to the document made before the next await, each
\* <<value, stage in which it is assigned>>; enter: the stages entered;
\* evs: the events emitted; p: the next awaited operation.
Continue(r, saved, ch, enter, evs, p) ==
    /\ rec' = IF saved
              THEN [rec EXCEPT ![job[r]] = Save(@, doc[r], dirty[r])]
              ELSE rec
    /\ doc' = [doc EXCEPT ![r] =
                 [f \in Fields |-> IF f \in DOMAIN ch THEN ch[f][1] ELSE @[f]]]
    /\ dirty' = [dirty EXCEPT ![r] =
                 (IF saved THEN {} ELSE @) \cup Mods(doc[r], ch)]
    /\ events' = [events EXCEPT ![r] = @ \o evs]
    /\ hist' = [hist EXCEPT
                 ![r].started = @ \o enter,
                 ![r].asg = [f \in Fields |->
                               IF f \in DOMAIN ch THEN ch[f][2] ELSE @[f]]]
    /\ pc' = [pc EXCEPT ![r] = p]
    /\ UNCHANGED <<env, calc, resp, job>>

\* The catch block of processVideo with `video` set: the awaited operation
\* rejected or the code after it raised; status and reason are assigned to
\* the document the run has been assigning to, and its save is awaited.
Catch(r, msg) ==
    LET ch == [status |-> <<"failed", CurStage(r)>>,
               processingError |-> <<msg, CurStage(r)>>]
    IN  /\ doc' = [doc EXCEPT ![r] =
                     [f \in Fields |-> IF f \in DOMAIN ch THEN ch[f][1] ELSE @[f]]]
        /\ dirty' = [dirty EXCEPT ![r] = @ \cup Mods(doc[r], ch)]
        /\ hist' = [hist EXCEPT ![r].failStage = CurStage(r),
                                ![r].error = msg]
        /\ pc' = [pc EXCEPT ![r] = "saveCatch"]
        /\ UNCHANGED <<env, calc, rec, resp, job, loc, disk, events>>

\* The catch block of processVideo with `video` undefined: nothing to
\* save, the error event is emitted and the error rethrown.
CatchNoVideo(r, msg) ==
    /\ events' = [events EXCEPT ![r] = @ \o EmitError(msg)]
    /\ hist' = [hist EXCEPT ![r].outcome = "threw", ![r].error = msg]
    /\ pc' = [pc EXCEPT ![r] = "done"]
    /\ UNCHANGED <<env, calc, rec, resp, job, doc, dirty, loc, disk>>

\* ------------------------------------------------------------- controller
IdleRuns == {r \in Runs : pc[r] = "idle"}
\* the starts the model follows: env.maxStarts in all, env.maxStartsOfJob of
\* one video
CanSchedule(j) ==
    /\ IdleRuns # {}
    /\ Cardinality(Runs \ IdleRuns) < env.maxStarts
    /\ Cardinality({r \in Runs \ IdleRuns : job[r] = j}) < env.maxStartsOfJob
FreeRun == CHOOSE r \in IdleRuns : \A q \in IdleRuns : r <= q

\* setImmediate(async () => { await processVideo(video._id, ...) })
Schedule(j) ==
    /\ pc' = [pc EXCEPT ![FreeRun] = "scheduled"]
    /\ job' = [job EXCEPT ![FreeRun] = j]

\* POST /api/videos/upload
UploadVideo(j, hasFile, autoProcess) ==
    /\ j \in env.jobs
    /\ rec[j].status = "absent"
    /\ IF ~hasFile
       THEN /\ resp' = 400
            /\ UNCHANGED <<rec, pc, job>>
       ELSE /\ autoProcess => CanSchedule(j)
            /\ rec' = [rec EXCEPT ![j] = NewRecord]
            /\ resp' = 201
            /\ IF autoProcess THEN Schedule(j) ELSE UNCHANGED <<pc, job>>
    /\ UNCHANGED <<env, calc, doc, dirty, loc, disk, events, hist>>

BusyStatuses == {"processing", "extracting", "analyzing_frames", "transcribing"}

\* POST /api/videos/:id/process
ProcessVideoFile(j) ==
    /\ j \in env.jobs
    /\ IF rec[j].status = "absent"
       THEN resp' = 404 /\ UNCHANGED <<pc, job>>
       ELSE IF rec[j].status \in BusyStatuses
       THEN resp' = 400 /\ UNCHANGED <<pc, job>>
       ELSE CanSchedule(j) /\ resp' = 200 /\ Schedule(j)
    /\ UNCHANGED <<env, calc, rec, doc, dirty, loc, disk, events, hist>>

\* --------------------------------------------------- processVideo, stage 1
\* the setImmediate callback runs: processVideo is called and awaits
\* Video.findById
StartRun(r) ==
    /\ pc[r] = "scheduled"
    /\ pc' = [pc EXCEPT ![r] = "findById"]
    /\ UNCHANGED <<env, calc, rec, resp, job, doc, dirty, loc, disk, events, hist>>

\* video = await Video.findById(videoId); if (!video) throw ...
FindById(r, ok) ==
    /\ pc[r] = "findById"
    /\ IF ok /\ rec[job[r]].status # "absent"
       THEN /\ doc' = [doc EXCEPT ![r] = rec[job[r]]]
            /\ dirty' = [dirty EXCEPT ![r] = {}]
            /\ pc' = [pc EXCEPT ![r] = "mkdir"]
            /\ UNCHANGED <<env, calc, rec, resp, job, loc, disk, events, hist>>
       ELSE CatchNoVideo(r, IF ok THEN "Video not found" ELSE "read failed")

\* workDir = path.join(this.processingDir, videoId.toString()): the
\* directory is named by the job
WorkDirOfAnyJob(j) == "A"
WorkDir(j) == j

\* await fs.mkdir(workDir); then updateProgress(.., 'extracting', 5, ..)
\* runs up to its save
MkDir(r, ok) ==
    /\ pc[r] = "mkdir"
    /\ IF ok
       THEN /\ Continue(r, FALSE, UpdateProgress(5), Enter(5), <<>>, "save5")
            /\ disk' = [disk EXCEPT ![WorkDir(job[r])].exists = TRUE]
            /\ UNCHANGED loc
       ELSE Catch(r, "mkdir failed")

\* the save of updateProgress(5) resolves; getVideoMetadata is awaited
SaveProgress5(r, ok) ==
    /\ pc[r] = "save5"
    /\ IF ok
       THEN /\ Continue(r, TRUE, <<>>, <<>>,
                   EmitUpdate(5),
                   "metadata")
            /\ UNCHANGED <<loc, disk>>
       ELSE Catch(r, "save failed")

\* metadata = await ffmpegService.getVideoMetadata(video.filepath);
\* video.duration, video.resolution assigned; video.save() awaited
GetVideoMetadata(r, ok) ==
    /\ pc[r] = "metadata"
    /\ IF ok
       THEN /\ Continue(r, FALSE,
                   [duration |-> <<Val(r, File(job[r]).duration), 1>>],
                   <<>>, <<>>, "saveMeta")
            /\ UNCHANGED <<loc, disk>>
       ELSE Catch(r, "ffprobe failed")

\* ------------------------------------------------------ stage 2: keyframes
SaveMetadata(r, ok) ==
    /\ pc[r] = "saveMeta"
    /\ IF ok
       THEN /\ Continue(r, TRUE, UpdateProgress(10), Enter(10), <<>>, "save10")
            /\ UNCHANGED <<loc, disk>>
       ELSE Catch(r, "save failed")

\* the save of updateProgress(10) resolves; extractFrames is awaited
\* (ffmpegService: let frameCount = 0)
SaveProgress10(r, ok) ==
    /\ pc[r] = "save10"
    /\ IF ok
       THEN /\ Continue(r, TRUE, <<>>, <<>>,
                   EmitUpdate(10),
                   "extractFrames")
            /\ loc' = [loc EXCEPT ![r].frameCount = 0, ![r].callbacks = 0]
            /\ UNCHANGED disk
       ELSE Catch(r, "save failed")

\* ffmpegService.extractFrames, stderr handler:
\*   progress = Math.min((frameCount / totalFrames) * 100, 100)
\* and the callback of processVideo: Math.round(10 + progress * 0.15).
\* 0/0 is NaN and Math.min(NaN, 100) is NaN; n/0 is Infinity.
ExtractionProgress(frameCount, totalFrames) ==
    IF totalFrames = 0
    THEN IF frameCount = 0 THEN NaN ELSE Num(25)
    ELSE IF frameCount >= totalFrames THEN Num(25)
    ELSE Num(RoundDiv(10 * totalFrames + 15 * frameCount, totalFrames))

\* frame counts an ffmpeg progress line may carry
FrameCounts(totalFrames) ==
    {0, totalFrames \div 2, totalFrames + 1}

\* one "frame=" line on ffmpeg's stderr while extractFrames is pending
ExtractFramesProgress(r) ==
    /\ pc[r] = "extractFrames"
    /\ loc[r].callbacks < env.maxCallbacks
    /\ \E n \in FrameCounts(TotalFrames(File(job[r]).duration)) :
          /\ n >= loc[r].frameCount
          /\ loc' = [loc EXCEPT ![r].frameCount = n, ![r].callbacks = @ + 1]
          /\ UNCHANGED disk
          /\ events' = [events EXCEPT ![r] = @ \o
                EmitProgress("extracting",
                    ExtractionProgress(n, TotalFrames(File(job[r]).duration)), "")]
    /\ UNCHANGED <<env, calc, rec, resp, job, pc, doc, dirty, hist>>

\* extractFrames resolves with n frame paths (or rejects); video.keyframes
\* is assigned; stage 3: updateProgress(.., 25, ..) runs up to its save
ExtractFrames(r, ok) ==
    /\ pc[r] = "extractFrames"
    /\ IF ok
       THEN \E n \in env.frameTotals :
            /\ Continue(r, FALSE,
                   [keyframes |-> <<Val(r, n), 2>>] @@ UpdateProgress(25),
                   Enter(25), <<>>, "save25")
            /\ loc' = [loc EXCEPT ![r].total = n, ![r].frameCount = 0,
                                ![r].callbacks = 0]
            /\ disk' = [disk EXCEPT ![WorkDir(job[r])].frames = n]
       ELSE Catch(r, "Frame extraction failed")

\* ---------------------------------------------------------- stage 3: audio
SaveProgress25(r, ok) ==
    /\ pc[r] = "save25"
    /\ IF ok
       THEN /\ Continue(r, TRUE, <<>>, <<>>,
                   EmitUpdate(25),
                   IF File(job[r]).hasAudio THEN "extractAudio" ELSE "saveAudio")
            /\ UNCHANGED <<loc, disk>>
       ELSE Catch(r, "save failed")

\* video.audioPath = await ffmpegService.extractAudio(..); video.save()
ExtractAudio(r, ok) ==
    /\ pc[r] = "extractAudio"
    /\ IF ok
       THEN /\ Continue(r, FALSE, [audioPath |-> <<Val(r, "audio.wav"), 3>>],
                   <<>>, <<>>, "saveAudio")
            /\ disk' = [disk EXCEPT ![WorkDir(job[r])].audio = TRUE]
            /\ UNCHANGED loc
       ELSE Catch(r, "Audio extraction failed")

\* the save after the audio stage resolves; stage 4: updateProgress(.., 30, ..)
SaveAudio(r, ok) ==
    /\ pc[r] = "saveAudio"
    /\ IF ok
       THEN /\ Continue(r, TRUE, UpdateProgress(30), Enter(30), <<>>, "save30")
            /\ UNCHANGED <<loc, disk>>
       ELSE Catch(r, "save failed")

\* ------------------------------------------------- external calls (axios)
\* the timeout option of each axios.post in milliseconds; 0 is axios's
\* default when the option is absent: no timeout
AxiosTimeout == [vision |-> 30000, asr |-> 120000, llm |-> 0]

ProviderFailures == {"timeout", "transport", "non2xx"}

\* what the awaiting code sees of a provider's behaviour: a provider that
\* never answers becomes a timeout rejection when the call has a timeout
Answer(call, behaviour) ==
    IF behaviour = "never" /\ AxiosTimeout[call] > 0 THEN "timeout" ELSE behaviour

\* ------------------------------------------------- stage 4: frame scoring
\* Math.round(30 + ((i + 1) / total) * 25)
FrameProgress(i, total) == RoundDiv(30 * total + 25 * (i + 1), total)

\* updateProgress(.., 'transcribing', 55, ..) up to its save
EnterTranscription == UpdateProgress(55)

\* the save of updateProgress(30) resolves; analyzeFramesEnhanced starts:
\* with no frame the loop body never runs and stage 5 begins
SaveProgress30(r, ok) ==
    /\ pc[r] = "save30"
    /\ IF ok
       THEN /\ IF loc[r].total = 0
               THEN Continue(r, TRUE, EnterTranscription, Enter(55),
                       EmitUpdate(30),
                       "save55")
               ELSE Continue(r, TRUE, <<>>, <<>>,
                       EmitUpdate(30),
                       "callML")
            /\ loc' = [loc EXCEPT ![r].i = 0, ![r].results = <<>>]
            /\ UNCHANGED disk
       ELSE Catch(r, "save failed")

\* { frame: i, timestamp, ...result }
FrameResult(i, timestamp, result) ==
    [frame |-> i, timestamp |-> timestamp] @@ result

\* simulateFrameAnalysis(frameIndex, framePath): the values its generator
\* gives for the frame index; timestamp: frameIndex
SimulateFrameAnalysis(i) == FrameResult(i, Sec(i), env.basic[i])

\* analyzeFrameEnhanced(i, framePath, timestamp): the values its generator
\* gives for the frame's index, timestamp and file size; when fs.stat
\* rejects, simulateFrameAnalysis
AnalyzeFrameEnhanced(i, timestamp) ==
    IF i \in env.unreadable
    THEN SimulateFrameAnalysis(i)
    ELSE FrameResult(i, timestamp, env.simulator[i])

\* one iteration of the loop of analyzeFramesEnhanced: the call for frame i
\* resolves with the provider's result or rejects (then analyzeFrameEnhanced
\* resolves), the result is pushed, progress is emitted for i % 5 === 0 and
\* the last frame
AnalyzeFrame(r, behaviour) ==
    /\ pc[r] = "callML"
    /\ Answer("vision", behaviour) # "never"
    /\ LET i == loc[r].i
           total == loc[r].total
           timestamp == Timestamp(i, Fps(File(job[r]).duration))
           evs == IF i % 5 = 0 \/ i = total - 1
                  THEN EmitProgress("analyzing_frames", Num(FrameProgress(i, total)),
                                    "Analyzing frame")
                  ELSE <<>>
       IN  /\ IF i + 1 < total
              THEN Continue(r, FALSE, <<>>, <<>>, evs, "callML")
              ELSE Continue(r, FALSE, EnterTranscription, Enter(55), evs, "save55")
           /\ \E result \in IF behaviour = "ok"
                             THEN {FrameResult(i, timestamp, res) : res \in env.remoteResults}
                             ELSE {AnalyzeFrameEnhanced(i, timestamp)} :
                 loc' = [loc EXCEPT ![r].i = i + 1,
                                    ![r].results = Append(@, result)]
           /\ UNCHANGED disk

\* ---------------------------------------------------- stage 5: transcript
\* simulateTranscription().segments
SimulatedSegments ==
    <<[start |-> 0, text |-> Text(<<>>, 2)], [start |-> 5, text |-> Text(<<>>, 3)],
      [start |-> 15, text |-> Text(<<>>, 2)], [start |-> 25, text |-> Text(<<>>, 2)],
      [start |-> 35, text |-> Text(<<>>, 3)]>>

\* seg => ({ time: seg.start || seg.time || 0, text: seg.text || '',
\*           flagged: false })
TranscriptEntry(seg) ==
    [time |-> IF "start" \in DOMAIN seg /\ seg.start # 0 THEN seg.start
              ELSE IF "time" \in DOMAIN seg THEN seg.time ELSE 0,
     text |-> IF "text" \in DOMAIN seg THEN seg.text ELSE NoText,
     flagged |-> FALSE]

\* video.transcript = transcript.map(..); stage 6: updateProgress(.., 65, ..)
SetTranscript(r, segments) ==
    [transcript |-> <<Val(r, [k \in DOMAIN segments |-> TranscriptEntry(segments[k])]), 5>>] @@
    UpdateProgress(65)

\* the save of updateProgress(55) resolves; transcribeAudio is awaited when
\* video.audioPath is set, else the transcript stays []
SaveProgress55(r, ok) ==
    /\ pc[r] = "save55"
    /\ IF ok
       THEN /\ IF doc[r].audioPath # NoVal
               THEN Continue(r, TRUE, <<>>, <<>>,
                       EmitUpdate(55),
                       "transcribe")
               ELSE Continue(r, TRUE, SetTranscript(r, <<>>), Enter(65),
                       EmitUpdate(55),
                       "save65")
            /\ UNCHANGED <<loc, disk>>
       ELSE Catch(r, "save failed")

\* bodies a 2xx answer of the transcription endpoint may carry: segments,
\* {} (no segments), null
AsrBodies == {"ok", "empty", "null"}
AsrBehaviours == AsrBodies \cup ProviderFailures \cup {"never"}

\* transcribeAudio resolves: response.data, or simulateTranscription() when
\* axios rejected.  transcriptionResult.segments on a null body raises in
\* processVideo, outside the try of transcribeAudio.
Transcribe(r, behaviour) ==
    /\ pc[r] = "transcribe"
    /\ LET a == Answer("asr", behaviour)
       IN  /\ a # "never"
           /\ IF a = "null"
              THEN Catch(r, "TypeError")
              ELSE /\ \E segments \in CASE a = "ok" -> env.asrSegments
                                        [] a = "empty" -> {<<>>}
                                        [] OTHER -> {SimulatedSegments} :
                         Continue(r, FALSE, SetTranscript(r, segments),
                                  Enter(65), <<>>, "save65")
                   /\ UNCHANGED <<loc, disk>>

\* ---------------------------------------------- stages 6 and 7 (synchronous)
\* analyzedSegments = analyzeTranscriptSegments(video.transcript.map(t =>
\* ({ time: t.time, text: t.text })))
AnalyzedSegments(transcript) ==
    AnalyzeTranscriptSegments(
        [k \in DOMAIN transcript |->
            [time |-> transcript[k].time, text |-> transcript[k].text]])

\* analyzedSegments.map(seg => ({ time, text, flagged, category }))
FlaggedTranscript(transcript) ==
    LET analyzed == AnalyzedSegments(transcript)
    IN  [k \in DOMAIN analyzed |->
            [time |-> analyzed[k].time, text |-> analyzed[k].text,
             flagged |-> analyzed[k].flagged, category |-> analyzed[k].category]]

\* the save of updateProgress(65) resolves; analyzeTranscriptSegments runs,
\* the transcript is reassigned with the flags; stage 7:
\* updateProgress(.., 75, ..)
SaveProgress65(r, ok) ==
    /\ pc[r] = "save65"
    /\ IF ok
       THEN /\ Continue(r, TRUE,
                   [transcript |-> <<Val(r, FlaggedTranscript(doc[r].transcript.v)), 6>>] @@
                   UpdateProgress(75),
                   Enter(75),
                   EmitUpdate(65),
                   "save75")
            /\ UNCHANGED <<loc, disk>>
       ELSE Catch(r, "save failed")

\* video.scores of lines 141-150, from the run's frame results and analysed
\* transcript
Scores(r) ==
    CombineScores(AggregateVisionScoresEnhanced(loc[r].results),
                  AggregateTextScores(AnalyzedSegments(doc[r].transcript.v)),
                  loc[r].total)

\* video.timeline of lines 153-157
Timeline(r) ==
    MergeTimeline(GetTextTimeline(AnalyzedSegments(doc[r].transcript.v)),
                  BuildVisionTimelineEnhanced(loc[r].results,
                                              Fps(File(job[r]).duration)))

\* the save of updateProgress(75) resolves; video.scores and video.timeline
\* are assigned; stage 8: updateProgress(.., 'summarizing', 85, ..)
SaveProgress75(r, ok) ==
    /\ pc[r] = "save75"
    /\ IF ok
       THEN /\ Continue(r, TRUE,
                   [scores |-> <<Val(r, Scores(r)), 7>>,
                    timeline |-> <<Val(r, Timeline(r)), 7>>] @@
                   UpdateProgress(85),
                   Enter(85),
                   EmitUpdate(75),
                   "save85")
            /\ UNCHANGED <<loc, disk>>
       ELSE Catch(r, "save failed")

\* ------------------------------------------------------ stage 8: report
\* lines 176-200 of processVideo: the verdict (stage 8), then stage 9: model
\* versions, status 'completed', progress 100; the final save is awaited.
\* summary is what generateDetailedSummary resolved with.
Verdict(r, summary) ==
    [overall |-> <<Val(r, summary.label), 8>>,
     recommendedAction |-> <<Val(r, summary.recommendedAction), 8>>,
     modelVersions |-> <<Val(r, "whisper-simulation-v1"), 9>>,
     status |-> <<"completed", 9>>,
     processingProgress |-> <<100, 9>>,
     processingStage |-> <<"Analysis complete", 9>>]

\* generateDetailedWithTemplates(analysisData): label and action of the
\* deterministic classifier for the document's scores and timeline
GenerateDetailedWithTemplates(d) ==
    [label |-> DetermineLabel(d.scores.v),
     recommendedAction |-> DetermineAction(d.scores.v, Len(d.timeline.v))]

\* generateWithOpenAI after JSON.parse: result.label || determineLabel(..),
\* result.recommended_action || determineAction(..); "" is a missing or
\* empty member
FromReply(d, result) ==
    [label |-> IF result.label # "" THEN result.label
               ELSE DetermineLabel(d.scores.v),
     recommendedAction |->
         IF result.recommended_action # "" THEN result.recommended_action
         ELSE DetermineAction(d.scores.v, Len(d.timeline.v))]

\* the save of updateProgress(85) resolves; generateDetailedSummary awaits
\* the endpoint when OPENAI_API_KEY is set, else renders the templates
SaveProgress85(r, ok) ==
    /\ pc[r] = "save85"
    /\ IF ok
       THEN /\ IF env.useOpenAI
               THEN Continue(r, TRUE, <<>>, <<>>,
                       EmitUpdate(85),
                       "openai")
               ELSE Continue(r, TRUE,
                       Verdict(r, GenerateDetailedWithTemplates(doc[r])), <<9>>,
                       EmitUpdate(85),
                       "saveFinal")
            /\ UNCHANGED <<loc, disk>>
       ELSE Catch(r, "save failed")

\* replies of the report endpoint: a JSON verdict, text that is not JSON,
\* a 2xx body without choices
LlmBodies == {"json", "text", "noChoices"}
LlmBehaviours == LlmBodies \cup ProviderFailures \cup {"never"}

\* generateWithOpenAI resolves or rejects (generateDetailedSummary then
\* falls back to the templates); with no answer and no timeout the await
\* never completes
GenerateSummary(r, behaviour) ==
    /\ pc[r] = "openai"
    /\ LET a == Answer("llm", behaviour)
       IN  IF a = "never"
           THEN /\ pc' = [pc EXCEPT ![r] = "hung"]
                /\ UNCHANGED <<env, calc, rec, resp, job, doc, dirty, loc, disk, events, hist>>
           ELSE /\ \E summary \in
                        IF a = "json"
                        THEN {FromReply(doc[r], result) : result \in env.llmReplies}
                        ELSE {GenerateDetailedWithTemplates(doc[r])} :
                      Continue(r, FALSE, Verdict(r, summary), <<9>>, <<>>, "saveFinal")
                /\ UNCHANGED <<loc, disk>>

\* ----------------------------------------------------- stage 9: persist
\* processVideo has returned or thrown: its document and locals are gone
Forget(r) ==
    /\ doc' = [doc EXCEPT ![r] = AbsentRecord]
    /\ dirty' = [dirty EXCEPT ![r] = {}]
    /\ loc' = [loc EXCEPT ![r] = NoLoc]
    /\ UNCHANGED disk

\* the final save resolves: emitComplete, return video
SaveFinal(r, ok) ==
    /\ pc[r] = "saveFinal"
    /\ IF ok
       THEN /\ rec' = [rec EXCEPT ![job[r]] = Save(@, doc[r], dirty[r])]
            /\ events' = [events EXCEPT ![r] = @ \o EmitComplete(doc[r])]
            /\ hist' = [hist EXCEPT ![r].outcome = "returned"]
            /\ pc' = [pc EXCEPT ![r] = "done"]
            /\ Forget(r)
            /\ UNCHANGED <<env, calc, resp, job>>
       ELSE Catch(r, "save failed")

\* the save of the catch block resolves (emitError, rethrow) or rejects
\* (the rejection leaves processVideo before emitError)
SaveCatch(r, ok) ==
    /\ pc[r] = "saveCatch"
    /\ IF ok
       THEN /\ rec' = [rec EXCEPT ![job[r]] = Save(@, doc[r], dirty[r])]
            /\ events' = [events EXCEPT ![r] = @ \o EmitError(hist[r].error)]
            /\ hist' = [hist EXCEPT ![r].outcome = "threw",
                                    ![r].handlerWrote = dirty[r]]
       ELSE /\ hist' = [hist EXCEPT ![r].outcome = "handlerThrew"]
            /\ UNCHANGED <<rec, events>>
    /\ pc' = [pc EXCEPT ![r] = "done"]
    /\ Forget(r)
    /\ UNCHANGED <<env, calc, resp, job>>

\* ------------------------------------------------------- specifications
Files == [duration : Durations, hasAudio : BOOLEAN]

InitState ==
    /\ rec = [j \in Jobs |-> AbsentRecord]
    /\ resp = 0
    /\ job = [r \in Runs |-> "A"]
    /\ pc = [r \in Runs |-> "idle"]
    /\ doc = [r \in Runs |-> AbsentRecord]
    /\ dirty = [r \in Runs |-> {}]
    /\ loc = [r \in Runs |-> NoLoc]
    /\ events = [r \in Runs |-> <<>>]
    /\ hist = [r \in Runs |-> NoHist]
    /\ disk = [j \in Jobs |-> NoDir]

Blank == [c \in VisionCats |-> 0]
FrameIndexes == 0..(MaxFrames - 1)

\* providers of a video without content: every frame scores 0 on every
\* path, the transcription endpoint hears one harmless sentence, the report
\* endpoint answers review / manual_review
BlankProviders ==
    [remoteResults |-> {Blank},
     simulator |-> [i \in FrameIndexes |-> Blank],
     basic |-> [i \in FrameIndexes |-> Blank],
     unreadable |-> {},
     asrSegments |-> {<<[start |-> 12, text |-> Text(<<"ok">>, 3)]>>},
     llmReplies |-> {[label |-> "review", recommended_action |-> "manual_review"]}]

\* one run of one video, for every file and configuration
Init ==
    /\ InitState
    /\ calc = NoCalc
    /\ \E f \in Files, io \in BOOLEAN, ai \in BOOLEAN :
          env = [jobs |-> {"A"}, file |-> [j \in Jobs |-> f], io |-> io,
                 useOpenAI |-> ai, maxStarts |-> 1, maxStartsOfJob |-> 1,
                 frameTotals |-> {0, 1, MaxFrames}, maxCallbacks |-> MaxCallbacks]
                @@ BlankProviders

\* up to MaxRuns runs of one video, started by any interleaving of requests;
\* one file, one frame, no progress sink
InitConc ==
    /\ InitState
    /\ calc = NoCalc
    /\ env = [jobs |-> {"A"},
              file |-> [j \in Jobs |-> [duration |-> 40, hasAudio |-> TRUE]],
              io |-> FALSE, useOpenAI |-> TRUE, maxStarts |-> MaxRuns,
              maxStartsOfJob |-> MaxRuns,
              frameTotals |-> {1}, maxCallbacks |-> 1]
             @@ BlankProviders

Next ==
    \/ \E j \in Jobs, hasFile \in BOOLEAN, autoProcess \in BOOLEAN :
          UploadVideo(j, hasFile, autoProcess)
    \/ \E j \in Jobs : ProcessVideoFile(j)
    \/ \E r \in Runs : StartRun(r)
    \/ \E r \in Runs, ok \in BOOLEAN : FindById(r, ok)
    \/ \E r \in Runs, ok \in BOOLEAN : MkDir(r, ok)
    \/ \E r \in Runs, ok \in BOOLEAN : SaveProgress5(r, ok)
    \/ \E r \in Runs, ok \in BOOLEAN : GetVideoMetadata(r, ok)
    \/ \E r \in Runs, ok \in BOOLEAN : SaveMetadata(r, ok)
    \/ \E r \in Runs, ok \in BOOLEAN : SaveProgress10(r, ok)
    \/ \E r \in Runs : ExtractFramesProgress(r)
    \/ \E r \in Runs, ok \in BOOLEAN : ExtractFrames(r, ok)
    \/ \E r \in Runs, ok \in BOOLEAN : SaveProgress25(r, ok)
    \/ \E r \in Runs, ok \in BOOLEAN : ExtractAudio(r, ok)
    \/ \E r \in Runs, ok \in BOOLEAN : SaveAudio(r, ok)
    \/ \E r \in Runs, ok \in BOOLEAN : SaveProgress30(r, ok)
    \/ \E r \in Runs, b \in {"ok", "never"} \cup ProviderFailures : AnalyzeFrame(r, b)
    \/ \E r \in Runs, ok \in BOOLEAN : SaveProgress55(r, ok)
    \/ \E r \in Runs, b \in AsrBehaviours : Transcribe(r, b)
    \/ \E r \in Runs, ok \in BOOLEAN : SaveProgress65(r, ok)
    \/ \E r \in Runs, ok \in BOOLEAN : SaveProgress75(r, ok)
    \/ \E r \in Runs, ok \in BOOLEAN : SaveProgress85(r, ok)
    \/ \E r \in Runs, b \in LlmBehaviours : GenerateSummary(r, b)
    \/ \E r \in Runs, ok \in BOOLEAN : SaveFinal(r, ok)
    \/ \E r \in Runs, ok \in BOOLEAN : SaveCatch(r, ok)

Spec == Init /\ [][Next]_vars
SpecConc == InitConc /\ [][Next]_vars

\* one run of one 40-second video whose providers return content: the
\* remote vision provider a blank frame, violence 0.72 or a nudity value
\* above 1; the transcription endpoint a harmless sentence, one hate-speech
\* keyword at 12 s or a profane sentence; the report endpoint a verdict of
\* the closed sets, one outside them or none
InitVerdict ==
    /\ InitState
    /\ calc = NoCalc
    /\ \E audio \in BOOLEAN, ai \in BOOLEAN :
          env = [jobs |-> {"A"},
                 file |-> [j \in Jobs |-> [duration |-> 40, hasAudio |-> audio]],
                 io |-> TRUE, useOpenAI |-> ai, maxStarts |-> 1, maxStartsOfJob |-> 1,
                 frameTotals |-> {0, 1, 2}, maxCallbacks |-> 1,
                 remoteResults |->
                     {Blank,
                      [Blank EXCEPT !.violence = 72],
                      [Blank EXCEPT !.nudity = 170]},
                 simulator |-> [i \in FrameIndexes |-> Blank],
                 basic |-> [i \in FrameIndexes |-> Blank],
                 unreadable |-> {},
                 asrSegments |->
                     {<<[start |-> 12, text |-> Text(<<"ok">>, 3)]>>,
                      <<[start |-> 12, text |-> Text(<<"nazi">>, 4)]>>,
                      <<[start |-> 0, text |-> Text(<<"fuck", "fuck", "hell">>, 97)]>>},
                 llmReplies |->
                     {[label |-> "review", recommended_action |-> "manual_review"],
                      [label |-> "unsafe", recommended_action |-> "block"],
                      [label |-> "", recommended_action |-> ""]}]

SpecVerdict == InitVerdict /\ [][Next]_vars

\* up to MaxRuns runs of one audio-less one-frame video with a progress
\* sink, started by any interleaving of requests; ffmpeg prints no progress
\* line, the remote vision provider answers violence 0.72, the simulator a
\* blank frame, the verdict is the classifier's
InitRace ==
    /\ InitState
    /\ calc = NoCalc
    /\ env = [jobs |-> {"A"},
              file |-> [j \in Jobs |-> [duration |-> 40, hasAudio |-> FALSE]],
              io |-> TRUE, useOpenAI |-> FALSE, maxStarts |-> MaxRuns,
              maxStartsOfJob |-> MaxRuns,
              frameTotals |-> {1}, maxCallbacks |-> 0,
              remoteResults |-> {[Blank EXCEPT !.violence = 72]}]
             @@ BlankProviders

\* the actions of Next that this configuration leaves enabled (no audio
\* track: extractAudio and transcribeAudio are not called; USE_OPENAI unset:
\* no call of the report endpoint; no progress line: no callback)
NextRace ==
    \/ \E j \in Jobs, hasFile \in BOOLEAN, autoProcess \in BOOLEAN :
          UploadVideo(j, hasFile, autoProcess)
    \/ \E j \in Jobs : ProcessVideoFile(j)
    \/ \E r \in Runs : StartRun(r)
    \/ \E r \in Runs, ok \in BOOLEAN : FindById(r, ok)
    \/ \E r \in Runs, ok \in BOOLEAN : MkDir(r, ok)
    \/ \E r \in Runs, ok \in BOOLEAN : SaveProgress5(r, ok)
    \/ \E r \in Runs, ok \in BOOLEAN : GetVideoMetadata(r, ok)
    \/ \E r \in Runs, ok \in BOOLEAN : SaveMetadata(r, ok)
    \/ \E r \in Runs, ok \in BOOLEAN : SaveProgress10(r, ok)
    \/ \E r \in Runs, ok \in BOOLEAN : ExtractFrames(r, ok)
    \/ \E r \in Runs, ok \in BOOLEAN : SaveProgress25(r, ok)
    \/ \E r \in Runs, ok \in BOOLEAN : SaveAudio(r, ok)
    \/ \E r \in Runs, ok \in BOOLEAN : SaveProgress30(r, ok)
    \/ \E r \in Runs, b \in {"ok", "never"} \cup ProviderFailures : AnalyzeFrame(r, b)
    \/ \E r \in Runs, ok \in BOOLEAN : SaveProgress55(r, ok)
    \/ \E r \in Runs, ok \in BOOLEAN : SaveProgress65(r, ok)
    \/ \E r \in Runs, ok \in BOOLEAN : SaveProgress75(r, ok)
    \/ \E r \in Runs, ok \in BOOLEAN : SaveProgress85(r, ok)
    \/ \E r \in Runs, ok \in BOOLEAN : SaveFinal(r, ok)
    \/ \E r \in Runs, ok \in BOOLEAN : SaveCatch(r, ok)

SpecRace == InitRace /\ [][NextRace]_vars

\* two videos A and B (one frame, an audio track, no progress sink, template
\* report) and up to MaxRuns runs over them in any interleaving, each video
\* started once
InitJobs ==
    /\ InitState
    /\ calc = NoCalc
    /\ env = [jobs |-> {"A", "B"},
              file |-> [j \in Jobs |-> [duration |-> 40, hasAudio |-> TRUE]],
              io |-> FALSE, useOpenAI |-> TRUE, maxStarts |-> MaxRuns,
              maxStartsOfJob |-> 1, frameTotals |-> {1}, maxCallbacks |-> 1]
             @@ BlankProviders

SpecJobs == InitJobs /\ [][Next]_vars

\* ------------------------------------------- the classifier on its own
Categories == {"nudity", "violence", "weapons", "profanity", "hate_speech",
               "sexual_content", "drug_use"}

\* scores (hundredths) at and just above every threshold of the classifier
ScoreValues == {0, 10, 11, 20, 21, 25, 26, 30, 31, 35, 36, 40, 41, 50, 51,
                60, 61, 70, 71, 75, 76, 80, 81, 100}

\* score vectors with at most two nonzero categories, without and with the
\* overall_confidence of a run
ScoreVectors ==
    LET cats == {[c \in Categories |->
                     IF c = c1 THEN v1 ELSE IF c = c2 THEN v2 ELSE 0] :
                 c1 \in Categories, c2 \in Categories,
                 v1 \in ScoreValues, v2 \in ScoreValues}
    IN  cats \cup {v @@ [overall_confidence |-> oc] : v \in cats, oc \in {50, 98}}

TimelineLengths == {0, 10, 11}

InitClassifier ==
    /\ InitState
    /\ env = [jobs |-> {}, file |-> [j \in Jobs |-> [duration |-> 0, hasAudio |-> FALSE]],
              io |-> FALSE, useOpenAI |-> FALSE, maxStarts |-> 0, maxStartsOfJob |-> 0,
              frameTotals |-> {}, maxCallbacks |-> 0]
             @@ BlankProviders
    /\ \E scores \in ScoreVectors, n \in TimelineLengths :
          calc = [called |-> FALSE, scores |-> scores, timeline |-> n,
                  label |-> "", action |-> ""]

\* determineLabel and determineAction applied to one analysisData
Classify ==
    /\ ~calc.called
    /\ calc' = [calc EXCEPT !.called = TRUE,
                            !.label = DetermineLabel(calc.scores),
                            !.action = DetermineAction(calc.scores, calc.timeline)]
    /\ UNCHANGED <<env, rec, resp, job, pc, doc, dirty, loc, events, hist, disk>>

NextClassifier == Classify

SpecClassifier == InitClassifier /\ [][NextClassifier]_vars

\* ------------------------------------------------------------ properties
\* processVideo has been called for run r and has neither returned nor thrown
InFlight(r) == pc[r] \notin {"idle", "scheduled", "done"}

RunsOf(j) == {r \in Runs : job[r] = j /\ pc[r] # "idle"}

Progress(r) == {i \in DOMAIN events[r] : events[r][i].type = "progress"}
\* what run r has sent to one room, and the terminal events among it
SentTo(r, to) == SelectSeq(events[r], LAMBDA e : e.to = to)
Terminal(s) == {i \in DOMAIN s : s[i].type \in {"complete", "error"}}

MediaErrors == {"ffprobe failed", "Frame extraction failed", "Audio extraction failed"}
\* failures of the store and the file system, and the missing record
LocalErrors == {"save failed", "read failed", "mkdir failed", "Video not found"}

\* C1: at most one run of a job is inside processVideo at any time, whatever
\* the interleaving of the upload's auto-process and POST /:id/process
C1_AtMostOneRunInFlight ==
    \A j \in Jobs : Cardinality({r \in RunsOf(j) : InFlight(r)}) <= 1

\* C2: once every started run of a job has ended, the job record is not
\* left in status processing
C2_NeverLeftProcessing ==
    \A j \in Jobs :
        (RunsOf(j) # {} /\ \A r \in RunsOf(j) : pc[r] = "done")
            => rec[j].status # "processing"

\* C3: a run in which media extraction, the store and the file system never
\* fail does not throw, whatever the three endpoints do: it returns with the
\* record completed
C3_ProviderFailuresAbsorbed ==
    \A r \in Runs :
        (pc[r] = "done" /\ hist[r].outcome # "handlerThrew"
                        /\ hist[r].error \notin MediaErrors \cup LocalErrors)
            => /\ hist[r].outcome = "returned"
               /\ rec[job[r]].status = "completed"

\* C4: no run waits on an external call that will never complete
C4_EveryCallBounded ==
    \A r \in Runs : pc[r] # "hung"

\* C5: a run whose metadata probing, frame extraction or audio extraction
\* failed ends with the record failed and the reason captured, having entered
\* no stage after audio extraction
C5_MediaFailureFailsJob ==
    \A r \in Runs :
        (pc[r] = "done" /\ hist[r].error \in MediaErrors)
            => /\ rec[job[r]].status = "failed"
               /\ rec[job[r]].processingError = hist[r].error
               /\ CurStage(r) <= 3

\* C6: with a progress sink, a run sends to each room at most one terminal
\* event and nothing after it, and an ended run has sent exactly one: the
\* completion event if it returned, the error event with the error message
\* if it threw
C6_ExactlyOneTerminalEvent ==
    env.io => \A r \in Runs : \A k \in DOMAIN Rooms :
        LET s == SentTo(r, Rooms[k])
        IN  /\ Cardinality(Terminal(s)) <= 1
            /\ \A i \in Terminal(s) : i = Len(s)
            /\ pc[r] = "done" =>
                 /\ Cardinality(Terminal(s)) = 1
                 /\ s[Len(s)].type =
                      IF hist[r].outcome = "returned" THEN "complete" ELSE "error"
                 /\ s[Len(s)].type = "error" => s[Len(s)].msg = hist[r].error

\* C7: the save of the failure handler persists no data value that was
\* assigned in memory during the stage that raised
C7_HandlerPersistsNothingPartial ==
    \A r \in Runs :
        hist[r].outcome = "threw" =>
            \A f \in hist[r].handlerWrote \cap DataFields :
                hist[r].asg[f] < hist[r].failStage

StageNames == <<"extracting", "analyzing_frames", "transcribing",
                "analyzing_text", "summarizing">>
Rank(name) ==
    IF \E i \in DOMAIN StageNames : StageNames[i] = name
    THEN CHOOSE i \in DOMAIN StageNames : StageNames[i] = name
    ELSE 0

\* the stage each awaited operation of processVideo belongs to (0: before
\* stage 1)
StageOfAwait ==
    [p \in {"findById", "mkdir", "save5", "metadata", "saveMeta", "save10",
            "extractFrames", "save25", "extractAudio", "saveAudio", "save30",
            "callML", "save55", "transcribe", "save65", "save75", "save85",
            "openai", "hung", "saveFinal"} |->
        CASE p \in {"findById", "mkdir"} -> 0
          [] p \in {"save5", "metadata", "saveMeta"} -> 1
          [] p \in {"save10", "extractFrames"} -> 2
          [] p \in {"save25", "extractAudio", "saveAudio"} -> 3
          [] p \in {"save30", "callML"} -> 4
          [] p \in {"save55", "transcribe"} -> 5
          [] p = "save65" -> 6
          [] p = "save75" -> 7
          [] p \in {"save85", "openai", "hung"} -> 8
          [] OTHER -> 9]

C9_NoScoresWhileProcessing ==
    \A r \in Runs :
        (InFlight(r) /\ rec[job[r]].status = "processing")
            => /\ rec[job[r]].scores.by # r
               /\ rec[job[r]].timeline.by # r

\* C10: every progress event carries an integer in 0..100 and the values of
\* a run never decrease
C10_ProgressInRangeAndMonotone ==
    \A r \in Runs :
        /\ \A i \in Progress(r) :
              /\ ~events[r][i].progress.nan
              /\ events[r][i].progress.n \in 0..100
        /\ \A i, k \in Progress(r) :
              i < k => events[r][i].progress.n <= events[r][k].progress.n

\* the events of run r a connected socket receives: io.to(room).emit reaches
\* the sockets that joined the owner's room, io.emit every connected socket
Delivered(r, subscriber) ==
    SelectSeq(events[r],
              LAMBDA e : e.to = "all" \/ (e.to = "user" /\ subscriber = "owner"))

\* C13: a subscriber that is not the job's owning user receives none of the
\* job's progress, completion and error events
C13_OnlyOwnerReceives ==
    \A r \in Runs : Delivered(r, "other") = <<>>

\* a hard threshold of determineLabel is exceeded
HardThresholdExceeded(scores) ==
    \/ scores.nudity > 60
    \/ scores.violence > 70
    \/ scores.hate_speech > 50
    \/ scores.sexual_content > 60
    \/ scores.weapons > 70

\* C18: the classifier answers flagged whenever a hard threshold is exceeded
\* (nudity > 0.6, violence > 0.7, hate_speech > 0.5, sexual_content > 0.6,
\* weapons > 0.7), whatever the other scores and the timeline length
C18_HardThresholdFlags ==
    (calc.called /\ HardThresholdExceeded(calc.scores)) => calc.label = "flagged"

\* violence = 0.75 and all else 0, with a timeline of 11 events: flagged
C18_Witness ==
    /\ calc.called
    /\ calc.scores = [c \in Categories |-> IF c = "violence" THEN 75 ELSE 0]
    /\ calc.timeline = 11
    /\ calc.label = "flagged"

\* one category in (0.3, 0.5] and the other six 0
SingleModerateSignal(scores) ==
    \E c \in Categories :
        /\ scores[c] > 30 /\ scores[c] <= 50
        /\ \A d \in Categories \ {c} : scores[d] = 0

\* C19: a single moderate signal (one category in (0.3, 0.5], all others 0)
\* gives label review and action age_restrict
C19_SingleModerateSignal ==
    (calc.called /\ SingleModerateSignal(calc.scores))
        => calc.label = "review" /\ calc.action = "age_restrict"

\* the record of job j holds the result of a finished analysis
Completed(j) == rec[j].status = "completed"

\* a score vector as the data model has it
InContract(scores) ==
    /\ Categories \subseteq DOMAIN scores
    /\ \A c \in Categories : scores[c] \in 0..100
    /\ "overall_confidence" \in DOMAIN scores
    /\ scores.overall_confidence \in 50..98

\* C14: every score vector a run persists has the seven categories, each in
\* [0,1], and overall_confidence in [0.5, 0.98], whatever the providers
\* returned
C14_ScoreVectorInRange ==
    \A j \in Jobs : rec[j].scores.by # 0 => InContract(rec[j].scores.v)

\* C16: an audio-less video whose frames all score 0 (seven categories 0,
\* empty timeline) gets label safe and action publish from the classifier,
\* for every frame count
C16_BlankVideoSafe ==
    \A j \in Jobs :
        (/\ Completed(j)
         /\ ~env.useOpenAI
         /\ ~File(j).hasAudio
         /\ \A c \in Categories : rec[j].scores.v[c] = 0
         /\ rec[j].timeline.v = <<>>)
            => /\ rec[j].overall.v = "safe"
               /\ rec[j].recommendedAction.v = "publish"

\* the transcript is one segment at 12 s whose text includes exactly one
\* keyword of the hate-speech lexicon, and the categories of the vision
\* provider are all 0
OneHateKeywordAt12(j) ==
    LET t == rec[j].transcript.v
    IN  /\ Len(t) = 1
        /\ t[1].time = 12
        /\ Cardinality(Included(t[1].text, hateSpeechKeywords)) = 1
        /\ \A c \in VisionCats : rec[j].scores.v[c] = 0

\* C17: one segment at 12 s with exactly one hate-speech keyword and no
\* vision signal gives exactly one flagged segment, exactly one timeline
\* event (hate_speech, start 12, end 15) and a label review or flagged
C17_HateKeywordScenario ==
    \A j \in Jobs :
        (Completed(j) /\ ~env.useOpenAI /\ OneHateKeywordAt12(j))
            => /\ rec[j].transcript.v[1].flagged
               /\ Len(rec[j].timeline.v) = 1
               /\ rec[j].timeline.v[1].category = "hate_speech"
               /\ rec[j].timeline.v[1].start = Sec(12)
               /\ rec[j].timeline.v[1].end = Sec(15)
               /\ rec[j].overall.v \in {"review", "flagged"}

Labels == {"safe", "neutral", "review", "flagged"}
Actions == {"publish", "age_restrict", "manual_review", "remove"}

\* C20: the verdict of every completed job has a label in {safe, neutral,
\* review, flagged} and an action in {publish, age_restrict, manual_review,
\* remove}, on the remote path and on the template path
C20_VerdictInClosedSets ==
    \A j \in Jobs :
        Completed(j) => /\ rec[j].overall.v \in Labels
                        /\ rec[j].recommendedAction.v \in Actions

\* the events run r emits in the step
Emitted(r) == SubSeq(events'[r], Len(events[r]) + 1, Len(events'[r]))

\* C11: when a run emits its completion event the record is already final
\* (status completed, progress 100) and the event's label, action, score
\* vector and timeline count are those of the record (the report text is
\* assigned and saved together with the label)
C11_CompletionMatchesRecord ==
    [][\A r \in Runs : \A k \in DOMAIN Emitted(r) :
          Emitted(r)[k].type = "complete"
              => /\ rec'[job[r]].status = "completed"
                 /\ rec'[job[r]].processingProgress = 100
                 /\ Emitted(r)[k].msg = FinalState(rec'[job[r]])]_vars

\* the step is one of run r: a continuation of its processVideo call or the
\* request that schedules it
StepOf(r) ==
    \/ pc'[r] # pc[r]
    \/ doc'[r] # doc[r]
    \/ loc'[r] # loc[r]

\* C12: every step of a run of one job leaves the record and the working
\* directory of every other job unchanged, and a record holds only values
\* that a run of its own job computed
C12_OtherJobUntouched ==
    [][/\ \A r \in Runs : StepOf(r) =>
             \A j \in Jobs \ {job'[r]} :
                 rec'[j] = rec[j] /\ disk'[j] = disk[j]
       /\ \A j \in Jobs : \A f \in DataFields :
             rec'[j][f].by # 0 => job'[rec'[j][f].by] = j]_vars

\* runs of A and of B have both finished with their records completed and
\* their directories filled
C12_Witness ==
    /\ \A j \in Jobs : Completed(j) /\ disk[j] = [exists |-> TRUE, frames |-> 1, audio |-> TRUE]
    /\ \A r \in Runs : pc[r] = "done"
    /\ \E r, q \in Runs : job[r] = "A" /\ job[q] = "B"

\* the transcript a run stores when transcribeAudio fell back to
\* simulateTranscription
FallbackTranscript ==
    FlaggedTranscript([k \in DOMAIN SimulatedSegments |->
                          TranscriptEntry(SimulatedSegments[k])])

\* the model/version tags a run that used the fallback writes
FallbackTags == "whisper-simulation-v1"

\* C21: the record of a completed job whose transcript came from the
\* transcription endpoint carries model/version tags different from those
\* of a job whose transcript is the fallback segment set
C21_FallbackDistinguishable ==
    \A j \in Jobs :
        (Completed(j) /\ File(j).hasAudio
            /\ rec[j].transcript.v # FallbackTranscript)
            => rec[j].modelVersions.v # FallbackTags

\* C28: for every score vector and timeline length given to the classifier:
\* label flagged implies action manual_review or remove, action remove
\* implies label flagged, action publish implies label safe or neutral
C28_LabelActionConsistent ==
    calc.called =>
        /\ calc.label = "flagged" => calc.action \in {"manual_review", "remove"}
        /\ calc.action = "remove" => calc.label = "flagged"
        /\ calc.action = "publish" => calc.label \in {"safe", "neutral"}

\* a vector removed for nudity 0.76 alone, classified flagged
C28_Witness ==
    /\ calc.called
    /\ calc.action = "remove"
    /\ calc.label = "flagged"
    /\ calc.scores.nudity = 76
    /\ \A c \in Categories \ {"nudity"} : calc.scores[c] = 0

\* C29: in every persisted state, under any runs and re-runs, overlapping
\* ones included, a record with status completed has processingProgress 100
\* and its label, action, scores and timeline were written by one single run
C29_CompletedRecordFromOneRun ==
    \A j \in Jobs :
        rec[j].status = "completed" =>
            /\ rec[j].processingProgress = 100
            /\ \E r \in Runs :
                  /\ rec[j].overall.by = r
                  /\ rec[j].recommendedAction.by = r
                  /\ rec[j].scores.by = r
                  /\ rec[j].timeline.by = r

\* getAnalysisStatus: the body of the response for the record of job j
\* (404 when the record is absent)
GetAnalysisStatus(j) ==
    IF rec[j].status = "absent"
    THEN [code |-> 404, success |-> FALSE]
    ELSE [code |-> 200, success |-> TRUE,
          status |-> rec[j].status,
          progress |-> rec[j].processingProgress,
          stage |-> rec[j].processingStage,
          overall |-> rec[j].overall.v,
          recommendedAction |-> rec[j].recommendedAction.v,
          isComplete |-> rec[j].status \in {"processed", "error"}]

\* C30: getAnalysisStatus reports isComplete = true exactly when the record
\* is in a terminal status written by the pipeline (completed or failed),
\* and false while a run is in progress
C30_IsCompleteIffTerminal ==
    \A j \in Jobs :
        GetAnalysisStatus(j).code = 200 =>
            (GetAnalysisStatus(j).isComplete
                <=> rec[j].status \in {"completed", "failed"})

\* ------------------------------------------- analysis of one set of results
\* lengths of the frame-result sequences given to the analysis: up to
\* MaxPairFrames frames scoring in two categories (with every transcription
\* of TranscriptInputs), MaxSingleFrames frames scoring in one (without
\* speech), LongFrames frames flagged in two categories (two events a frame)
\* with LongSegments flagged segments
MaxPairFrames == 3
MaxSingleFrames == 7
LongFrames == 10
LongSegments == 85

\* frame results as analyzeFramesEnhanced pushes them when no frame takes
\* the basic simulator: frame i at i / fps
FrameSequence(scores, fps) ==
    [k \in DOMAIN scores |-> FrameResult(k - 1, Timestamp(k - 1, fps), scores[k])]

PairScores == {[Blank EXCEPT !.violence = v, !.nudity = n] : v \in {0, 30, 60}, n \in {0, 40}}
SingleScores == {[Blank EXCEPT !.violence = v] : v \in {0, 30, 60}}

PairInputs == UNION {[1..n -> PairScores] : n \in 0..MaxPairFrames}
SingleInputs == [1..MaxSingleFrames -> SingleScores]

\* a video flagged throughout: two categories on every frame, a keyword in
\* every second of speech from second 3 on
LongScores == [k \in 1..LongFrames |-> [Blank EXCEPT !.violence = 30, !.nudity = 40]]
LongTranscript == [k \in 1..LongSegments |-> [start |-> 2 + k, text |-> Text(<<"nazi">>, 4)]]

\* answers of the transcription endpoint: nothing, harmless speech, one
\* keyword, two flagged segments with the same start, two flagged segments
\* without a start, flagged speech after the last frame
TranscriptInputs ==
    {<<>>,
     <<[start |-> 12, text |-> Text(<<"ok">>, 3)]>>,
     <<[start |-> 1, text |-> Text(<<"kill">>, 4)]>>,
     <<[start |-> 5, text |-> Text(<<"nazi">>, 4)], [start |-> 5, text |-> Text(<<"nazi">>, 2)]>>,
     <<[text |-> Text(<<"fuck">>, 1)], [text |-> Text(<<"fuck">>, 1)]>>,
     <<[start |-> 50, text |-> Text(<<"kill">>, 4)], [start |-> 55, text |-> Text(<<"fuck">>, 9)]>>}

InitAnalysis ==
    /\ InitState
    /\ env = [jobs |-> {}, file |-> [j \in Jobs |-> [duration |-> 0, hasAudio |-> FALSE]],
              io |-> FALSE, useOpenAI |-> FALSE, maxStarts |-> 0, maxStartsOfJob |-> 0,
              frameTotals |-> {}, maxCallbacks |-> 0]
             @@ BlankProviders
    /\ \E d \in Durations,
          in \in (PairInputs \X TranscriptInputs) \cup (SingleInputs \X {<<>>})
                    \cup {<<LongScores, LongTranscript>>} :
          LET scores == in[1]
              segments == in[2]
          IN
          calc = [called |-> FALSE, fps |-> Fps(d),
                  frameResults |-> FrameSequence(scores, Fps(d)),
                  segments |-> segments,
                  textTimeline |-> <<>>, visionTimeline |-> <<>>,
                  timeline |-> <<>>, scores |-> [c \in Categories |-> 0]]

\* stages 6 and 7 of processVideo on one set of frame results and one
\* transcription: video.transcript, analyzeTranscriptSegments, video.scores,
\* video.timeline
Analyze ==
    /\ ~calc.called
    /\ LET transcript == [k \in DOMAIN calc.segments |-> TranscriptEntry(calc.segments[k])]
           analyzed == AnalyzedSegments(transcript)
           textTimeline == GetTextTimeline(analyzed)
           visionTimeline == BuildVisionTimelineEnhanced(calc.frameResults, calc.fps)
       IN  calc' = [calc EXCEPT
                       !.called = TRUE,
                       !.textTimeline = textTimeline,
                       !.visionTimeline = visionTimeline,
                       !.timeline = MergeTimeline(textTimeline, visionTimeline),
                       !.scores = CombineScores(
                                      AggregateVisionScoresEnhanced(calc.frameResults),
                                      AggregateTextScores(analyzed),
                                      Len(calc.frameResults))]
    /\ UNCHANGED <<env, rec, resp, job, pc, doc, dirty, loc, events, hist, disk>>

NextAnalysis == Analyze

SpecAnalysis == InitAnalysis /\ [][NextAnalysis]_vars

\* the frame results with every category but c scoring 0
OnlyCategory(frameResults, c) ==
    [k \in DOMAIN frameResults |->
        [f \in DOMAIN frameResults[k] |->
            IF f \in VisionCats \ {c} THEN 0 ELSE frameResults[k][f]]]

OfCategory(timeline, c) == SelectSeq(timeline, LAMBDA e : e.category = c)

\* C22: the vision timeline is built per category independently: the events
\* of a category are those the same frames give when no other category
\* scores, so flagging a second category on the same frames never splits or
\* multiplies the first category's events
C22_CategoriesIndependent ==
    calc.called =>
        \A c \in VisionCats :
            OfCategory(calc.visionTimeline, c)
                = BuildVisionTimelineEnhanced(OnlyCategory(calc.frameResults, c), calc.fps)

\* the frames flagged for violence, and whether only violence is ever flagged
FlaggedFrames == {k \in DOMAIN calc.frameResults : calc.frameResults[k].violence > 25}
OnlyViolence ==
    \A k \in DOMAIN calc.frameResults, c \in VisionCats \ {"violence"} :
        calc.frameResults[k][c] <= 25

\* the frames an event covers
Covers(e, k) ==
    /\ e.start <= calc.frameResults[k].timestamp
    /\ calc.frameResults[k].timestamp < e.end

\* C23: when only one category is ever flagged, a flagged frame extends the
\* open event exactly when its timestamp is less than 2 s after the previous
\* flagged frame's, else it starts a new event, and each event's score is the
\* maximum over the frames merged into it
C23_MergeWithinTwoSeconds ==
    (calc.called /\ OnlyViolence) =>
        /\ \A a \in FlaggedFrames, b \in FlaggedFrames :
              (a < b /\ \A k \in FlaggedFrames : ~(a < k /\ k < b)) =>
                  LET gap == calc.frameResults[b].timestamp - calc.frameResults[a].timestamp
                      evs == {calc.visionTimeline[m] : m \in DOMAIN calc.visionTimeline}
                  IN  IF gap < Sec(2)
                      THEN \E e \in evs : Covers(e, a) /\ Covers(e, b)
                      ELSE \E e \in evs : e.start = calc.frameResults[b].timestamp
        /\ \A m \in DOMAIN calc.visionTimeline :
              LET e == calc.visionTimeline[m]
              IN  e.score = SetMax({calc.frameResults[k].violence :
                                       k \in {f \in FlaggedFrames : Covers(e, f)}})

\* how many times an event occurs in a timeline
Count(timeline, e) == Cardinality({m \in DOMAIN timeline : timeline[m] = e})

C25_NoDuplicateEvents ==
    calc.called =>
        \A k \in DOMAIN calc.timeline, m \in DOMAIN calc.timeline :
            (/\ calc.timeline[k].start = calc.timeline[m].start
             /\ calc.timeline[k].end = calc.timeline[m].end
             /\ calc.timeline[k].category = calc.timeline[m].category) => k = m

\* what the text analysis of the transcription gives for a category of the
\* score vector: sexual_content for nudity, nothing for weapons
TextSignal(c) ==
    LET textScores ==
            AggregateTextScores(AnalyzedSegments(
                [k \in DOMAIN calc.segments |-> TranscriptEntry(calc.segments[k])]))
    IN  IF c = "nudity" THEN textScores.sexual_content
        ELSE IF c = "weapons" THEN 0
        ELSE textScores[c]

\* every analysed frame scores 0 for the category
AllFramesZero(c) ==
    \A k \in DOMAIN calc.frameResults :
        c \in DOMAIN calc.frameResults[k] => calc.frameResults[k][c] = 0

\* C26: for each of the seven categories and every transcript, if every
\* analysed frame scores 0 for the category, the category's final score is
\* exactly 0
C26_ZeroFramesZeroScore ==
    calc.called =>
        \A c \in Categories : AllFramesZero(c) => calc.scores[c] = 0

\* C26 (amended): if every analysed frame scores 0 for the category and the
\* text analysis of the transcript scores 0 for it, the category's final
\* score is exactly 0
C26_ZeroSignalsZeroScore ==
    calc.called =>
        \A c \in Categories :
            (AllFramesZero(c) /\ TextSignal(c) = 0) => calc.scores[c] = 0

\* frames that score for nudity and never for violence, a transcript flagged
\* for profanity only: violence is 0
C26_Witness ==
    /\ calc.called
    /\ Len(calc.frameResults) > 1
    /\ AllFramesZero("violence")
    /\ \A k \in DOMAIN calc.frameResults : calc.frameResults[k].nudity > 0
    /\ TextSignal("profanity") > 0
    /\ TextSignal("violence") = 0
    /\ calc.scores.violence = 0
    /\ calc.scores.nudity > 0

\* ------------------------------------------------ frames on the three paths
\* one run of an audio-less video of four frames at 2, 1 or 0.5 fps; any set
\* of its frame files is unreadable, the remote provider answers or fails
\* frame by frame
InitFrames ==
    /\ InitState
    /\ calc = NoCalc
    /\ \E d \in Durations, unreadable \in SUBSET (0..3) :
          env = [jobs |-> {"A"},
                 file |-> [j \in Jobs |-> [duration |-> d, hasAudio |-> FALSE]],
                 io |-> FALSE, useOpenAI |-> FALSE, maxStarts |-> 1, maxStartsOfJob |-> 1,
                 frameTotals |-> {4}, maxCallbacks |-> 0,
                 unreadable |-> unreadable]
                @@ BlankProviders

SpecFrames == InitFrames /\ [][NextRace]_vars

\* C27: the timestamps of the frame results are non-decreasing in frame-index
\* order, for every fps and every per-frame choice among the remote provider,
\* the file-size simulator and the basic simulator
C27_TimestampsNonDecreasing ==
    \A r \in Runs :
        \A k \in 1..(Len(loc[r].results) - 1) :
            loc[r].results[k].timestamp <= loc[r].results[k + 1].timestamp
====
